---- MODULE Spec2Model ----
(***************************************************************************)
(* A model of born-toggle (src/src/born-toggle.js): the Toggle class that  *)
(* binds trigger elements to their parent and target elements and runs     *)
(* the set / unset / toggle state machine with its dismissal listeners.    *)
(*                                                                         *)
(* The DOM is a small static tree per page; the mutable program state is   *)
(* the class lists of the elements, the per-trigger state bag, the         *)
(* registered listeners and the pending timers.  One action is one         *)
(* JavaScript task: a constructor call for one trigger, a dispatched DOM   *)
(* event, a timer firing, or a call of the public per-trigger API.         *)
(***************************************************************************)
EXTENDS Integers, Sequences, FiniteSets, TLC

\* Largest number of outside-interaction listeners, of hover-out listeners and
\* of pending timeout timers one trigger may have armed at a time.
MaxArm == 2

None == "none"

\* Read option k of a (partial) options object; d stands for undefined.
Get(o, k, d) == IF k \in DOMAIN o THEN o[k] ELSE d

NoOptions == [x \in {} |-> TRUE]

(***************************************************************************)
(* The values of the `auto` option.  k is the JavaScript type, n the       *)
(* number (or, for a boolean, 1 for true and 0 for false), s the string.   *)
(***************************************************************************)
AutoNum(n) == [k |-> "number", n |-> n, s |-> ""]
AutoBool(b) == [k |-> "boolean", n |-> IF b THEN 1 ELSE 0, s |-> ""]
AutoStr(s) == [k |-> "string", n |-> 0, s |-> s]
AutoObj == [k |-> "object", n |-> 0, s |-> "[object Object]"]
AutoUndefined == [k |-> "undefined", n |-> 0, s |-> ""]

\* The strings of the model that JavaScript's ToNumber reads as a number.
NumericStrings == ("250" :> 250) @@ ("" :> 0)

(***************************************************************************)
(* The pages.  elems is the document order, up the parentNode of each     *)
(* element, sel the selectors an element matches, disc the value of its   *)
(* data-toggle-close attribute, attr the JSON of a trigger's data-toggle  *)
(* attribute, inst the options object of the Toggle instance that sets    *)
(* the trigger up ("fn" stands for a caller-supplied hook function), url  *)
(* the names hasURLParameter answers true for, width body.offsetWidth and *)
(* events the DOM events, <<type, target>>, the user produces on it.      *)
(***************************************************************************)
\* Two parents, the first target inside its parent with a close control,
\* the second target outside its parent.
Tree1 ==
    ("body" :> None) @@ ("p1" :> "body") @@ ("t1" :> "p1") @@ ("g1" :> "p1")
    @@ ("x1" :> "g1") @@ ("p2" :> "body") @@ ("t2" :> "p2") @@ ("g2" :> "body")
    @@ ("o" :> "body")

Elems1 == <<"body", "p1", "t1", "g1", "x1", "p2", "t2", "g2", "o">>

Sel1 ==
    [e \in DOMAIN Tree1 |->
        CASE e = "g1" -> {"#g1"}
          [] e = "g2" -> {"#g2"}
          [] e = "x1" -> {"[data-toggle-close]"}
          [] e = "t1" -> {".tab"}
          [] e = "t2" -> {".tab", ".keep"}
          [] OTHER -> {}]

\* One parent for both triggers and both targets.
Tree2 ==
    ("body" :> None) @@ ("p" :> "body") @@ ("t1" :> "p") @@ ("g1" :> "p")
    @@ ("t2" :> "p") @@ ("g2" :> "p") @@ ("o" :> "body")

Elems2 == <<"body", "p", "t1", "g1", "t2", "g2", "o">>

Sel2 ==
    [e \in DOMAIN Tree2 |->
        CASE e = "g1" -> {"#g1"}
          [] e = "g2" -> {"#g2"}
          [] e = "p" -> {".p"}
          [] OTHER -> {}]

NoDisc(tree) == [e \in DOMAIN tree |-> ""]

Clicks(els) == {<<"click", e>> : e \in els}

\* Two independent, non-persistent triggers; t1 has hooks.
PagePlain ==
    [elems |-> Elems1, up |-> Tree1, sel |-> Sel1, disc |-> NoDisc(Tree1),
     triggers |-> <<"t1", "t2">>,
     attr |-> ("t1" :> [target |-> "#g1"]) @@ ("t2" :> [target |-> "#g2"]),
     inst |-> ("t1" :> [beforeUnsetAll |-> "fn", beforeUnset |-> "fn"])
           @@ ("t2" :> NoOptions),
     url |-> {}, width |-> 400,
     events |-> Clicks({"o", "p1", "t1", "t2", "x1"})]

\* Persistent triggers, one closing after a timeout, one on hover-out.
PageTimed ==
    [elems |-> Elems1, up |-> Tree1, sel |-> Sel1, disc |-> NoDisc(Tree1),
     triggers |-> <<"t1", "t2">>,
     attr |-> ("t1" :> [target |-> "#g1", persist |-> TRUE, timeout |-> 300])
           @@ ("t2" :> [target |-> "#g2", persist |-> TRUE, unsetOnHoverOut |-> TRUE]),
     inst |-> ("t1" :> NoOptions) @@ ("t2" :> NoOptions),
     url |-> {}, width |-> 400,
     events |-> Clicks({"t1", "t2"})]

\* Two triggers in one parent; t1 is persistent.
PageSharedParent ==
    [elems |-> Elems2, up |-> Tree2, sel |-> Sel2, disc |-> NoDisc(Tree2),
     triggers |-> <<"t1", "t2">>,
     attr |-> ("t1" :> [target |-> "#g1", parent |-> ".p", persist |-> TRUE])
           @@ ("t2" :> [target |-> "#g2", parent |-> ".p"]),
     inst |-> ("t1" :> NoOptions) @@ ("t2" :> NoOptions),
     url |-> {}, width |-> 400,
     events |-> Clicks({"o", "t1", "t2"})]

\* A sibling group of persistent tabs; t2 may veto its unset.
PageTabs ==
    [elems |-> Elems1, up |-> Tree1, sel |-> Sel1, disc |-> NoDisc(Tree1),
     triggers |-> <<"t1", "t2">>,
     attr |-> ("t1" :> [target |-> "#g1", persist |-> TRUE, siblingSelector |-> ".tab"])
           @@ ("t2" :> [target |-> "#g2", persist |-> TRUE, siblingSelector |-> ".tab"]),
     inst |-> ("t1" :> [beforeUnsetAll |-> "fn"]) @@ ("t2" :> [beforeUnset |-> "fn"]),
     url |-> {}, width |-> 400,
     events |-> Clicks({"t1", "t2"})]

\* The sibling group, with t2 matching the skipSelector of t1.
PageTabsSkip ==
    [elems |-> Elems1, up |-> Tree1, sel |-> Sel1, disc |-> NoDisc(Tree1),
     triggers |-> <<"t1", "t2">>,
     attr |-> ("t1" :> [target |-> "#g1", persist |-> TRUE, siblingSelector |-> ".tab",
                        skipSelector |-> ".keep"])
           @@ ("t2" :> [target |-> "#g2", persist |-> TRUE, siblingSelector |-> ".tab"]),
     inst |-> ("t1" :> NoOptions) @@ ("t2" :> NoOptions),
     url |-> {}, width |-> 400,
     events |-> Clicks({"t1", "t2"})]

\* The sibling group, with t1 marked by an activeClass of its own.
PageTabsClass ==
    [elems |-> Elems1, up |-> Tree1, sel |-> Sel1, disc |-> NoDisc(Tree1),
     triggers |-> <<"t1", "t2">>,
     attr |-> ("t1" :> [target |-> "#g1", persist |-> TRUE, siblingSelector |-> ".tab",
                        activeClass |-> "open"])
           @@ ("t2" :> [target |-> "#g2", persist |-> TRUE, siblingSelector |-> ".tab"]),
     inst |-> ("t1" :> NoOptions) @@ ("t2" :> NoOptions),
     url |-> {}, width |-> 400,
     events |-> Clicks({"t1", "t2"})]

\* Timed and immediate auto-activation.
PageAuto ==
    [elems |-> Elems1, up |-> Tree1, sel |-> Sel1, disc |-> NoDisc(Tree1),
     triggers |-> <<"t1", "t2">>,
     attr |-> ("t1" :> [target |-> "#g1", persist |-> TRUE, auto |-> AutoNum(250)])
           @@ ("t2" :> [target |-> "#g2", persist |-> TRUE, auto |-> AutoBool(TRUE)]),
     inst |-> ("t1" :> [beforeSet |-> "fn"]) @@ ("t2" :> NoOptions),
     url |-> {}, width |-> 400,
     events |-> Clicks({"t1", "t2"})]

\* Auto-activation by URL parameter, without and with a breakpoints table.
PageAutoUrl ==
    [elems |-> Elems1, up |-> Tree1, sel |-> Sel1, disc |-> NoDisc(Tree1),
     triggers |-> <<"t1", "t2">>,
     attr |-> ("t1" :> [target |-> "#g1", persist |-> TRUE, auto |-> AutoStr("promoFlag")])
           @@ ("t2" :> [target |-> "#g2", persist |-> TRUE, auto |-> AutoStr("promoFlag")]),
     inst |-> ("t1" :> [beforeSet |-> "fn"])
           @@ ("t2" :> [breakpoints |-> [mobile |-> [max |-> 480]]]),
     url |-> {"promoFlag"}, width |-> 400,
     events |-> Clicks({"t1", "t2"})]

\* Hover and touch: t1 opens on mouseenter and listens to click too; t2 is
\* persistent, does not close itself and listens to click and touchstart.
PageHover ==
    [elems |-> Elems1, up |-> Tree1, sel |-> Sel1, disc |-> NoDisc(Tree1),
     triggers |-> <<"t1", "t2">>,
     attr |-> ("t1" :> [target |-> "#g1", event |-> {"mouseenter", "click"}])
           @@ ("t2" :> [target |-> "#g2", event |-> {"click", "touchstart"},
                        unsetSelf |-> FALSE, persist |-> TRUE]),
     inst |-> ("t1" :> NoOptions) @@ ("t2" :> [beforeUnset |-> "fn"]),
     url |-> {}, width |-> 400,
     events |-> Clicks({"o", "t1", "t2"})
                \cup {<<"mouseenter", "t1">>, <<"touchstart", "t2">>}]

\* A trigger whose target is not in the document: p1, the parentNode of the
\* trigger t1.  Enter is pressed with the focus on p1 and on t1.
PageMissing ==
    [elems |-> Elems1, up |-> Tree1, sel |-> Sel1, disc |-> NoDisc(Tree1),
     triggers |-> <<"t1", "t2", "p1">>,
     attr |-> ("t1" :> [target |-> "#g1", persist |-> TRUE])
           @@ ("t2" :> [target |-> "#g2", persist |-> TRUE])
           @@ ("p1" :> [target |-> "#missing", auto |-> AutoBool(TRUE)]),
     inst |-> ("t1" :> NoOptions) @@ ("t2" :> NoOptions) @@ ("p1" :> NoOptions),
     url |-> {}, width |-> 400,
     keys |-> {"p1", "t1"},
     events |-> Clicks({"t1", "t2", "p1"})]

\* Auto-activation by breakpoint name: the bounds an entry of the table may
\* carry, and the widths of document.body tried against them.
MinChoices == {[has |-> FALSE, v |-> 0], [has |-> TRUE, v |-> 0], [has |-> TRUE, v |-> 300]}
MaxChoices == {[has |-> FALSE, v |-> 0], [has |-> TRUE, v |-> 0], [has |-> TRUE, v |-> 480]}
Widths == {0, 400, 600}

Entry(lo, hi) ==
    (IF lo.has THEN "min" :> lo.v ELSE NoOptions) @@ (IF hi.has THEN "max" :> hi.v ELSE NoOptions)

PageBreakpoint(lo, hi, w) ==
    [elems |-> Elems1, up |-> Tree1, sel |-> Sel1, disc |-> NoDisc(Tree1),
     triggers |-> <<"t1">>,
     attr |-> ("t1" :> [target |-> "#g1", persist |-> TRUE, auto |-> AutoStr("mobile")]),
     inst |-> ("t1" :> [beforeSet |-> "fn", breakpoints |-> [mobile |-> Entry(lo, hi)]]),
     url |-> {}, width |-> w,
     events |-> Clicks({"t1"})]

BreakpointPages ==
    {PageBreakpoint(lo, hi, w) : lo \in MinChoices, hi \in MaxChoices, w \in Widths}

\* A breakpoint name the table does not have (t1), and no table at all (t2).
PageBreakpointMissing ==
    [elems |-> Elems1, up |-> Tree1, sel |-> Sel1, disc |-> NoDisc(Tree1),
     triggers |-> <<"t1", "t2">>,
     attr |-> ("t1" :> [target |-> "#g1", persist |-> TRUE, auto |-> AutoStr("mobile")])
           @@ ("t2" :> [target |-> "#g2", persist |-> TRUE, auto |-> AutoStr("mobile")]),
     inst |-> ("t1" :> [breakpoints |-> [tablet |-> [min |-> 600]]]) @@ ("t2" :> NoOptions),
     url |-> {}, width |-> 400,
     events |-> Clicks({"t1", "t2"})]

\* Two triggers, in different parents, that resolve to the same target;
\* the target holds a close control without data-toggle-close value and one
\* whose value only t2 matches.
Tree3 ==
    ("body" :> None) @@ ("p1" :> "body") @@ ("t1" :> "p1") @@ ("g1" :> "p1")
    @@ ("x1" :> "g1") @@ ("x2" :> "g1") @@ ("p2" :> "body") @@ ("t2" :> "p2")

Elems3 == <<"body", "p1", "t1", "g1", "x1", "x2", "p2", "t2">>

Sel3 ==
    [e \in DOMAIN Tree3 |->
        CASE e = "g1" -> {"#g1"}
          [] e \in {"x1", "x2"} -> {"[data-toggle-close]"}
          [] e = "t1" -> {".tab"}
          [] e = "t2" -> {".tab", ".keep"}
          [] OTHER -> {}]

Disc3 == [e \in DOMAIN Tree3 |-> IF e = "x2" THEN ".keep" ELSE ""]

PageSharedTarget ==
    [elems |-> Elems3, up |-> Tree3, sel |-> Sel3, disc |-> Disc3,
     triggers |-> <<"t1", "t2">>,
     attr |-> ("t1" :> [target |-> "#g1"])
           @@ ("t2" :> [target |-> "#g1", persist |-> TRUE]),
     inst |-> ("t1" :> NoOptions) @@ ("t2" :> NoOptions),
     url |-> {}, width |-> 400,
     events |-> Clicks({"t1", "t2", "x1", "x2"})]

Pages ==
    <<PagePlain, PageTimed, PageSharedParent, PageTabs, PageTabsSkip, PageTabsClass,
      PageAuto, PageAutoUrl, PageBreakpointMissing, PageHover, PageMissing,
      PageSharedTarget>>

VARIABLES
    doc,            \* the document the program runs in: one of Pages
    bag,            \* trigger -> trigger.toggle: options, parentEl, targetEl
    toggleTrigger,  \* element -> the trigger recorded on it as targetEl.toggleTrigger
    hasAttr,        \* the triggers that still carry the data-toggle attribute
    cls,            \* element -> its classList
    blur,           \* the blurCallback listeners on document.body, in registration order
    hover,          \* the mouseLeaveCallback listeners, in registration order
    timers,         \* trigger -> number of pending setTimeout(Toggle.unset) timers
    autoTimers,     \* trigger -> delays of the pending setTimeout(Toggle.set) timers
    inner,          \* the elements with Toggle.closeElCallback registered for click
    stale,          \* history: trigger -> how many of its pending timers were armed
                    \* before it was last Inactive (they fire first)
    last            \* the task that ran last: its kind, the element it was about, the
                    \* triggers it deactivated and activated, whether it threw

vars ==
    <<doc, bag, toggleTrigger, hasAttr, cls, blur, hover, timers, autoTimers, inner, stale,
      last>>

Elements == DOMAIN doc.up
Triggers == {doc.triggers[i] : i \in DOMAIN doc.triggers}

\* x bound to one value in F: F sees the value of x, not the expression
Bind(x, F(_)) == CHOOSE r \in {F(v) : v \in {x}} : TRUE

(***************************************************************************)
(* DOM queries.                                                            *)
(***************************************************************************)
\* The path from e to the root: e, its parentNode, ...
RECURSIVE Path(_)
Path(e) == IF e = None THEN <<>> ELSE <<e>> \o Path(doc.up[e])

InSeq(x, q) == \E i \in DOMAIN q : q[i] = x

\* Node.contains: e is a or a descendant of a.
Contains(a, e) == a # None /\ e # None /\ InSeq(a, Path(e))

\* Element.matches; a selector that is undefined or null matches nothing.
Matches(e, selector) == selector # None /\ selector \in doc.sel[e]

First(q) == IF q = <<>> THEN None ELSE q[1]

\* Element.closest
Closest(e, selector) == First(SelectSeq(Path(e), LAMBDA a : Matches(a, selector)))

\* document.querySelectorAll
QuerySelectorAll(selector) == SelectSeq(doc.elems, LAMBDA a : Matches(a, selector))

\* element.querySelector: the first descendant of root matching the selector
QuerySelectorIn(root, selector) ==
    First(SelectSeq(doc.elems,
                    LAMBDA a : a # root /\ Contains(root, a) /\ Matches(a, selector)))

(***************************************************************************)
(* Options and binding.                                                    *)
(***************************************************************************)
DefaultCloseSelector == "[data-toggle-close]"
DefaultActiveClass == "toggle--active"

\* _getOptions, lines 103-105: the defaults
WithDefaults(merged) ==
    [k \in DOMAIN merged \cup {"closeSelector", "activeClass", "unsetSelf"} |->
        CASE k = "closeSelector" ->
                IF Get(merged, "closeSelector", "") # ""
                THEN merged.closeSelector ELSE DefaultCloseSelector
          [] k = "activeClass" ->
                IF Get(merged, "activeClass", "") # ""
                THEN merged.activeClass ELSE DefaultActiveClass
          [] k = "unsetSelf" -> Get(merged, "unsetSelf", TRUE)
          [] OTHER -> merged[k]]

\* _getOptions: the data attribute's options, completed from the instance's
\* options and then from the defaults.
GetOptions(attr, instOptions) ==
    Bind([k \in DOMAIN attr \cup (DOMAIN instOptions \ {"triggers", "dataAttribute"}) |->
             IF k \in DOMAIN attr THEN attr[k] ELSE instOptions[k]],
         LAMBDA merged : WithDefaults(merged))

\* _getParent
GetParent(t, options) ==
    LET selector == Get(options, "parent", None)
    IN  IF Closest(t, selector) # None THEN Closest(t, selector)
        ELSE IF QuerySelectorAll(selector) # <<>> THEN First(QuerySelectorAll(selector))
        ELSE doc.up[t]

\* _getTarget
GetTarget(t, options, parentEl) ==
    LET targetSelector == Get(options, "target", None)
    IN  Bind(QuerySelectorAll(targetSelector), LAMBDA targetEl :
            IF Len(targetEl) > 1 THEN QuerySelectorIn(parentEl, targetSelector)
            ELSE First(targetEl))

NoBag == [state |-> "none", options |-> NoOptions, parentEl |-> None, targetEl |-> None]

\* _setupTrigger, lines 31-41: trigger.toggle and whether a target was found
GetBag(t) ==
    Bind(GetOptions(doc.attr[t], doc.inst[t]), LAMBDA options :
        Bind(GetParent(t, options), LAMBDA parentEl :
            Bind(GetTarget(t, options, parentEl), LAMBDA targetEl :
                [state |-> IF targetEl = None THEN "aborted" ELSE "ready",
                 options |-> options, parentEl |-> parentEl, targetEl |-> targetEl])))

\* _setupCallbacks: what a hook may return; the default hooks return true.
HookReturns(t, hook) ==
    IF hook \in DOMAIN doc.attr[t] \cup DOMAIN doc.inst[t] THEN BOOLEAN ELSE {TRUE}

(***************************************************************************)
(* The state machine.  The operations are functions from program state to  *)
(* program state; s is the record of the mutable state they work on:       *)
(*   bag, back (toggleTrigger), cls, blur, hover, timers, inner            *)
(* with calls, the calls made so far in the running task, err, an          *)
(* exception being thrown, and threw, an exception a listener ended with.  *)
(* bs, bua and bu                                                          *)
(* are what the hooks beforeSet, beforeUnsetAll and beforeUnset of each    *)
(* trigger return in this task.                                            *)
(***************************************************************************)
Opt(s, t) == s.bag[t].options
ParentEl(s, t) == s.bag[t].parentEl
TargetEl(s, t) == s.bag[t].targetEl

ActiveClass(s, t) == Opt(s, t).activeClass
Persist(s, t) == Get(Opt(s, t), "persist", FALSE)
UnsetSelf(s, t) == Opt(s, t).unsetSelf
UnsetOnHoverOut(s, t) == Get(Opt(s, t), "unsetOnHoverOut", FALSE)
Timeout(s, t) == Get(Opt(s, t), "timeout", 0)
SiblingSelector(s, t) == Get(Opt(s, t), "siblingSelector", None)
SkipSelector(s, t) == Get(Opt(s, t), "skipSelector", None)
CloseSelector(s, t) == Opt(s, t).closeSelector
Auto(s, t) == Get(Opt(s, t), "auto", AutoUndefined)

\* _setupHandlers: the event names of options.event, split at the blanks.
EventTypes(s, t) == Get(Opt(s, t), "event", {"click"})

Call(s, f, t, r) == [s EXCEPT !.calls = Append(@, [f |-> f, t |-> t, r |-> r])]

\* An uncaught TypeError: the call of a hook that _setupCallbacks never
\* installed (trigger.toggle.beforeSet is undefined).  The operations that
\* would follow in the same call stack are skipped.
Throw(s) == [s EXCEPT !.err = TRUE]

\* The exception of one listener ends that listener only: the event dispatch
\* reports it and goes on with the next listener
Caught(s) == [s EXCEPT !.threw = @ \/ s.err, !.err = FALSE]

\* classList.add of the trigger's activeClass on the trigger, its parentEl
\* and its targetEl (Toggle.set, lines 223-225)
AddMarks(s, t) ==
    [s EXCEPT !.cls = [e \in DOMAIN @ |->
        IF e \in {t, ParentEl(s, t), TargetEl(s, t)}
        THEN @[e] \cup {ActiveClass(s, t)} ELSE @[e]]]

\* classList.remove on the three, and the removal of the inner-click
\* listener (Toggle.unset, lines 198-202)
RemoveMarks(s, t) ==
    [s EXCEPT !.cls = [e \in DOMAIN @ |->
                          IF e \in {t, ParentEl(s, t), TargetEl(s, t)}
                          THEN @[e] \ {ActiveClass(s, t)} ELSE @[e]],
              !.inner = @ \ {TargetEl(s, t)}]

\* A variant of Toggle.unset that does not wait for beforeUnset's answer
UnsetUnasked(s, t, bu) ==
    IF ActiveClass(s, t) \in s.cls[t]
    THEN Call(RemoveMarks(Call(Call(s, "unset", t, TRUE), "beforeUnset", t, bu[t]), t),
              "afterUnset", t, TRUE)
    ELSE Call(s, "unset", t, TRUE)

\* Toggle.unset
Unset(s, t, bu) ==
    IF s.err THEN s
    ELSE Bind(Call(s, "unset", t, TRUE), LAMBDA s0 :
            IF ActiveClass(s0, t) \in s0.cls[t]
            THEN IF s0.bag[t].state # "ready"
                 THEN Throw(s0)
                 ELSE IF bu[t]
                      THEN Call(RemoveMarks(Call(s0, "beforeUnset", t, TRUE), t),
                                "afterUnset", t, TRUE)
                      ELSE Call(s0, "beforeUnset", t, FALSE)
            ELSE s0)

HasBag(s, e) == e \in Triggers /\ s.bag[e].state # "none"

\* A variant of the loop test without the persist clause
UnsetAllTestNoPersist(s, ref, e) ==
    /\ HasBag(s, e)
    /\ ~Matches(e, SkipSelector(s, ref))

\* The test of Toggle.unsetAll's loop body
UnsetAllTest(s, ref, e) ==
    /\ HasBag(s, e)
    /\ ~Matches(e, SkipSelector(s, ref))
    /\ (~Persist(s, e) \/ Matches(e, SiblingSelector(s, ref)))

RECURSIVE UnsetEach(_, _, _, _)
UnsetEach(s, q, ref, bu) ==
    IF q = <<>> \/ s.err THEN s
    ELSE UnsetEach(Bind(s, LAMBDA v :
                       IF UnsetAllTest(v, ref, Head(q)) THEN Unset(v, Head(q), bu) ELSE v),
                   Tail(q), ref, bu)

\* A variant of the query that lists the triggers carrying their own class
ActiveTriggersOwnClass(s, ref) ==
    SelectSeq(doc.elems, LAMBDA e : HasBag(s, e) /\ ActiveClass(s, e) \in s.cls[e])

\* document.querySelectorAll('.' + activeClass): a static list
ActiveTriggers(s, ref) == SelectSeq(doc.elems, LAMBDA e : ActiveClass(s, ref) \in s.cls[e])

\* Toggle.unsetAll
UnsetAll(s, ref, bu) ==
    Bind(s, LAMBDA v :
        Bind(ActiveTriggers(v, ref), LAMBDA activeTriggers :
            UnsetEach(Call(v, "unsetAll", ref, TRUE), activeTriggers, ref, bu)))

TouchTypes == {"touchstart", "touchend"}

\* triggerEvt.indexOf('touch') >= 0 ? triggerEvt : 'click'
BodyEvtType(triggerEvt) == IF triggerEvt \in TouchTypes THEN triggerEvt ELSE "click"

\* Toggle.set, lines 227-258: the dismissal listeners and the timer
ArmDismissal(s, t, triggerEvt) ==
    Bind(s, LAMBDA v :
        [v EXCEPT
            !.blur = IF ~Persist(v, t)
                     THEN Append(@, [trig |-> t, type |-> BodyEvtType(triggerEvt)])
                     ELSE @,
            !.hover = IF UnsetOnHoverOut(v, t)
                      THEN Append(@, [el |-> ParentEl(v, t), trig |-> t])
                      ELSE @,
            !.timers[t] = IF Timeout(v, t) # 0 THEN @ + 1 ELSE @,
            !.inner = @ \cup {TargetEl(v, t)}])

\* A variant of the pass that asks beforeUnsetAll and unsets nothing
SweepNever(s, t, bua, bu) == Call(s, "beforeUnsetAll", t, bua[t])

\* Toggle.set, lines 219-221: the unsetAll pass
Sweep(s, t, bua, bu) ==
    IF bua[t] THEN UnsetAll(Call(s, "beforeUnsetAll", t, TRUE), t, bu)
    ELSE Call(s, "beforeUnsetAll", t, FALSE)

\* A variant of Toggle.set that goes on whatever beforeSet returns
SetUnconditional(s, t, triggerEvt, bs, bua, bu) ==
    Call(ArmDismissal(AddMarks(Sweep(Call(Call(s, "set", t, TRUE), "beforeSet", t, bs[t]),
                                     t, bua, bu),
                               t),
                      t, triggerEvt),
         "afterSet", t, TRUE)

\* Toggle.set
Set(s, t, triggerEvt, bs, bua, bu) ==
    IF s.err THEN s
    ELSE IF s.bag[t].state # "ready" THEN Throw(Call(s, "set", t, TRUE))
    ELSE IF bs[t]
    THEN Bind(Sweep(Call(Call(s, "set", t, TRUE), "beforeSet", t, TRUE), t, bua, bu),
              LAMBDA s1 :
                IF s1.err THEN s1
                ELSE Call(ArmDismissal(AddMarks(s1, t), t, triggerEvt), "afterSet", t, TRUE))
    ELSE Call(Call(s, "set", t, TRUE), "beforeSet", t, FALSE)

\* A variant of Toggle.toggle that closes every Active trigger it is called on
ToggleAlways(s, t, evtType, bs, bua, bu) ==
    IF ActiveClass(s, t) \in s.cls[t]
    THEN Unset(Call(s, "toggle", t, TRUE), t, bu)
    ELSE Set(Call(s, "toggle", t, TRUE), t, evtType, bs, bua, bu)

\* Toggle.toggle
Toggle(s, t, evtType, bs, bua, bu) ==
    Bind(Call(s, "toggle", t, TRUE), LAMBDA s0 :
        IF ActiveClass(s0, t) \in s0.cls[t]
        THEN IF UnsetSelf(s0, t) /\ evtType # "mouseenter" THEN Unset(s0, t, bu) ELSE s0
        ELSE Set(s0, t, evtType, bs, bua, bu))

\* Toggle.toggleEventHandler, called with `this` the trigger
ToggleEventHandler(s, t, evtType, bs, bua, bu) == Toggle(s, t, evtType, bs, bua, bu)

\* closeElCallback's test: the click on e is on a close control of trig
\* whose data-toggle-close, if it has one, trig matches
ClosesTrigger(s, trig, e) ==
    Bind(Closest(e, CloseSelector(s, trig)), LAMBDA targetCloseEl :
        LET targetTriggerSelector ==
                IF targetCloseEl # None /\ doc.disc[targetCloseEl] # ""
                THEN doc.disc[targetCloseEl] ELSE None
        IN  /\ targetCloseEl # None
            /\ (Matches(trig, targetTriggerSelector) \/ targetTriggerSelector = None))

\* Toggle.closeElCallback, called with `this` the target element g for a
\* click on e
CloseElCallback(s, g, e, bu) ==
    Bind(s, LAMBDA v :
        IF ClosesTrigger(v, v.back[g], e)
        THEN Unset(Call(v, "closeElCallback", v.back[g], TRUE), v.back[g], bu)
        ELSE Call(v, "closeElCallback", v.back[g], TRUE))

RECURSIVE RemoveFirst(_, _)
RemoveFirst(q, x) ==
    IF q = <<>> THEN q
    ELSE IF Head(q) = x THEN Tail(q) ELSE <<Head(q)>> \o RemoveFirst(Tail(q), x)

\* The test of blurCallback: the interaction is outside the trigger
IsOutside(s, t, e) ==
    ~Contains(TargetEl(s, t), e) /\ ~Contains(ParentEl(s, t), e) /\ e # t

\* A variant of blurCallback that removes itself and leaves the trigger as it is
BlurCallbackIdle(s, l, e, bu) ==
    IF IsOutside(s, l.trig, e)
    THEN [Call(s, "blurCallback", l.trig, TRUE) EXCEPT !.blur = RemoveFirst(@, l)]
    ELSE Call(s, "blurCallback", l.trig, TRUE)

\* blurCallback of trigger l.trig, registered for l.type, on an event on e
BlurCallback(s, l, e, bu) ==
    Bind(Call(s, "blurCallback", l.trig, TRUE), LAMBDA s0 :
        IF IsOutside(s0, l.trig, e)
        THEN Unset([s0 EXCEPT !.blur = RemoveFirst(@, l)], l.trig, bu)
        ELSE s0)

\* mouseLeaveCallback of trigger l.trig
MouseLeaveCallback(s, l, bu) ==
    Unset([Call(s, "mouseLeaveCallback", l.trig, TRUE) EXCEPT !.hover = RemoveFirst(@, l)],
          l.trig, bu)

(***************************************************************************)
(* Event dispatch.                                                         *)
(***************************************************************************)
\* The capture phase at document.body: the blurCallback listeners registered
\* for this event type when the dispatch began, in registration order.
RECURSIVE CapturePhase(_, _, _, _, _)
CapturePhase(s, q, evtType, e, bu) ==
    IF q = <<>> THEN s
    ELSE CapturePhase(IF Head(q).type = evtType
                      THEN Caught(BlurCallback(s, Head(q), e, bu)) ELSE s,
                      Tail(q), evtType, e, bu)

\* The listeners Toggle puts on the nodes of the event's path, from the
\* target upwards: toggleEventHandler on a trigger (_setupHandlers), and
\* closeElCallback on a target element.  A touch event stops at the trigger
\* (stopImmediatePropagation).
RECURSIVE BubblePhase(_, _, _, _, _, _, _)
BubblePhase(s, path, evtType, e, bs, bua, bu) ==
    IF path = <<>> THEN s
    ELSE Bind(s, LAMBDA v :
            LET node == Head(path)
                handled == /\ node \in Triggers
                           /\ v.bag[node].state = "ready"
                           /\ evtType \in EventTypes(v, node)
                stopped == handled /\ evtType \in TouchTypes
            IN  Bind(IF handled THEN ToggleEventHandler(v, node, evtType, bs, bua, bu) ELSE v,
                     LAMBDA s1 :
                        IF stopped /\ ~s1.err THEN s1
                        ELSE BubblePhase(IF evtType = "click" /\ node \in s1.inner
                                         THEN Caught(CloseElCallback(Caught(s1), node, e, bu))
                                         ELSE Caught(s1),
                                         Tail(path), evtType, e, bs, bua, bu)))

\* mouseenter does not bubble
EventPath(evtType, e) == IF evtType = "mouseenter" THEN <<e>> ELSE Path(e)

DispatchEvent(s, evtType, e, bs, bua, bu) ==
    Bind(s, LAMBDA v :
        BubblePhase(CapturePhase(v, v.blur, evtType, e, bu),
                    EventPath(evtType, e), evtType, e, bs, bua, bu))

\* A mouseleave on element p: its mouseLeaveCallback listeners
RECURSIVE LeavePhase(_, _, _, _)
LeavePhase(s, q, p, bu) ==
    IF q = <<>> THEN s
    ELSE LeavePhase(IF Head(q).el = p THEN Caught(MouseLeaveCallback(s, Head(q), bu)) ELSE s,
                    Tail(q), p, bu)

(***************************************************************************)
(* Auto-activation (_setupTrigger, lines 49-73).                           *)
(***************************************************************************)
\* JavaScript's isNaN: whether ToNumber of the value is NaN
IsNaN(a) ==
    CASE a.k \in {"number", "boolean"} -> FALSE
      [] a.k = "string" -> a.s \notin DOMAIN NumericStrings
      [] OTHER -> TRUE

Truthy(a) ==
    CASE a.k = "number" -> a.n # 0
      [] a.k = "boolean" -> a.n = 1
      [] a.k = "string" -> a.s # ""
      [] a.k = "object" -> TRUE
      [] OTHER -> FALSE

\* The delay setTimeout reads from the value: ToNumber
ToNumber(a) == IF a.k = "string" THEN NumericStrings[a.s] ELSE a.n

HasURLParameter(name) == name \in doc.url

\* lines 62-64: the breakpoint exists and the width is within its bounds
BreakpointMatches(breakpoints, name) ==
    /\ name \in DOMAIN breakpoints
    /\ (Get(breakpoints[name], "min", 0) = 0 \/ doc.width >= breakpoints[name].min)
    /\ (Get(breakpoints[name], "max", 0) = 0 \/ doc.width <= breakpoints[name].max)

\* A variant of the auto-activation that calls set at once, whatever the
\* value of auto is
SetupAutoEager(s, t, bs, bua, bu) == [s |-> Set(s, t, "", bs, bua, bu), delays |-> <<>>]

\* A variant of the auto-activation that knows the numeric values only
SetupAutoTimerOnly(s, t, bs, bua, bu) ==
    IF Truthy(Auto(s, t)) /\ ~IsNaN(Auto(s, t))
    THEN [s |-> s, delays |-> <<ToNumber(Auto(s, t))>>]
    ELSE [s |-> s, delays |-> <<>>]

\* _setupTrigger, lines 49-73.  The result is the state and the delays of
\* the timers scheduled.
SetupAuto(s, t, bs, bua, bu) ==
    Bind(s, LAMBDA v :
        LET a == Auto(v, t)
            now == [s |-> Set(v, t, "", bs, bua, bu), delays |-> <<>>]
            nothing == [s |-> v, delays |-> <<>>]
        IN  IF Truthy(a)
            THEN IF ~IsNaN(a)
                 THEN [s |-> v, delays |-> <<ToNumber(a)>>]
                 ELSE IF a.k = "string"
                      THEN IF HasURLParameter(a.s)
                           THEN now
                           ELSE IF "breakpoints" \in DOMAIN doc.inst[t]
                                THEN IF BreakpointMatches(doc.inst[t].breakpoints, a.s)
                                     THEN now
                                     ELSE [s |-> Unset(v, t, bu), delays |-> <<>>]
                                ELSE nothing
                      ELSE now
            ELSE nothing)

\* _setupTrigger
SetupTriggerOp(s, t, bs, bua, bu) ==
    Bind(GetBag(t), LAMBDA toggle :
        IF toggle.targetEl = None
        THEN [s |-> [s EXCEPT !.bag[t] = toggle], delays |-> <<>>, attr |-> TRUE]
        ELSE Bind(SetupAuto([s EXCEPT !.bag[t] = toggle, !.back[toggle.targetEl] = t],
                            t, bs, bua, bu),
                  LAMBDA r : [s |-> r.s, delays |-> r.delays, attr |-> r.s.err]))

(***************************************************************************)
(* The tasks.                                                              *)
(***************************************************************************)
Cur ==
    [bag |-> bag, back |-> toggleTrigger, cls |-> cls, blur |-> blur, hover |-> hover,
     timers |-> timers, inner |-> inner, calls |-> <<>>, err |-> FALSE, threw |-> FALSE]

Armed(q, t) == Cardinality({i \in DOMAIN q : q[i].trig = t})

Bounded(r) ==
    \A t \in Triggers :
        Armed(r.blur, t) <= MaxArm /\ Armed(r.hover, t) <= MaxArm /\ r.timers[t] <= MaxArm

Ready(t) == bag[t].state = "ready"

IsActive(t) == ActiveClass(Cur, t) \in cls[t]

\* The triggers whose beforeUnset a task may consult: Toggle.unset asks only
\* a trigger that carries its active class
Active == {t \in Triggers : Ready(t) /\ IsActive(t)}

Write(r, op, el) ==
    /\ Bounded(r)
    /\ bag' = r.bag
    /\ toggleTrigger' = r.back
    /\ cls' = r.cls
    /\ blur' = r.blur
    /\ hover' = r.hover
    /\ timers' = r.timers
    /\ inner' = r.inner
    /\ stale' = [t \in Triggers |->
                    IF ~(r.bag[t].state = "ready" /\ ActiveClass(r, t) \in r.cls[t])
                    THEN r.timers[t]
                    ELSE IF op = "timeout" /\ el = t /\ stale[t] > 0 THEN stale[t] - 1
                    ELSE stale[t]]
    /\ last' = [op |-> op, el |-> el,
                off |-> {t \in Active : ActiveClass(r, t) \notin r.cls[t]},
                on |-> {t \in Triggers \ Active :
                           r.bag[t].state = "ready" /\ ActiveClass(r, t) \in r.cls[t]},
                err |-> r.err \/ r.threw]

Commit(x, op, el) == \E r \in {x} : Write(r, op, el)

\* What the hooks may return in one task.  Only the hooks of the triggers in
\* asked are consulted in the task; the others are fixed at true.
Hooks(hook, asked) ==
    {f \in [Triggers -> BOOLEAN] :
        \A t \in Triggers : f[t] \in (IF t \in asked THEN HookReturns(t, hook) ELSE {TRUE})}

Init ==
    /\ doc \in {Pages[i] : i \in DOMAIN Pages} \cup BreakpointPages
    /\ bag = [t \in Triggers |-> NoBag]
    /\ toggleTrigger = [e \in Elements |-> None]
    /\ hasAttr = Triggers
    /\ cls = [e \in Elements |-> {}]
    /\ blur = <<>>
    /\ hover = <<>>
    /\ timers = [t \in Triggers |-> 0]
    /\ autoTimers = [t \in Triggers |-> <<>>]
    /\ inner = {}
    /\ stale = [t \in Triggers |-> 0]
    /\ last = [op |-> "init", el |-> None, off |-> {}, on |-> {}, err |-> FALSE]

\* new Toggle({triggers: t, ...}): _setupTrigger for a trigger not set up
\* yet, the hooks returning bs, bua and bu
SetupStep(t, bs, bua, bu) ==
    /\ bag[t].state = "none"
    /\ \E r \in {SetupTriggerOp(Cur, t, bs, bua, bu)} :
          /\ Commit(r.s, "setup", t)
          /\ autoTimers' = [autoTimers EXCEPT ![t] = @ \o r.delays]
          /\ hasAttr' = IF r.attr THEN hasAttr ELSE hasAttr \ {t}
    /\ doc' = doc

SetupTrigger(t) ==
    \E bs \in Hooks("beforeSet", {t}), bua \in Hooks("beforeUnsetAll", {t}),
       bu \in Hooks("beforeUnset", Active) : SetupStep(t, bs, bua, bu)

\* The triggers whose toggleEventHandler an event of this type on e reaches
Handlers(evtType, e) ==
    {t \in Triggers : Ready(t) /\ evtType \in EventTypes(Cur, t) /\ InSeq(t, EventPath(evtType, e))}

\* Some listener of Toggle is registered for an event of this type on e
Observed(evtType, e) ==
    \/ \E i \in DOMAIN blur : blur[i].type = evtType
    \/ Handlers(evtType, e) # {}
    \/ evtType = "click" /\ \E g \in inner : Contains(g, e)

\* A DOM event of type evtType on element e that some listener observes
InteractStep(evtType, e, bs, bua, bu) ==
    /\ Observed(evtType, e)
    /\ Commit(DispatchEvent(Cur, evtType, e, bs, bua, bu), evtType, e)
    /\ UNCHANGED <<doc, hasAttr, autoTimers>>

Interact(evtType, e) ==
    \E bs \in Hooks("beforeSet", Handlers(evtType, e)),
       bua \in Hooks("beforeUnsetAll", Handlers(evtType, e)),
       bu \in Hooks("beforeUnset", Active) : InteractStep(evtType, e, bs, bua, bu)

\* A mouseleave event on element p that some listener observes
MouseLeaveStep(p, bu) ==
    /\ \E i \in DOMAIN hover : hover[i].el = p
    /\ Commit(LeavePhase(Cur, hover, p, bu), "mouseleave", p)
    /\ UNCHANGED <<doc, hasAttr, autoTimers>>

MouseLeave(p) == \E bu \in Hooks("beforeUnset", Active) : MouseLeaveStep(p, bu)

\* A timer of Toggle.set, line 255, fires
TimeoutStep(t, bu) ==
    /\ timers[t] > 0
    /\ Commit(Unset([Cur EXCEPT !.timers[t] = @ - 1], t, bu), "timeout", t)
    /\ UNCHANGED <<doc, hasAttr, autoTimers>>

TimeoutFire(t) == \E bu \in Hooks("beforeUnset", Active) : TimeoutStep(t, bu)

\* The timer of _setupTrigger, line 52, fires
AutoStep(t, bs, bua, bu) ==
    /\ autoTimers[t] # <<>>
    /\ autoTimers' = [autoTimers EXCEPT ![t] = Tail(@)]
    /\ Commit(Set(Cur, t, "", bs, bua, bu), "autoTimer", t)
    /\ UNCHANGED <<doc, hasAttr>>

AutoFire(t) ==
    \E bs \in Hooks("beforeSet", {t}), bua \in Hooks("beforeUnsetAll", {t}),
       bu \in Hooks("beforeUnset", Active) : AutoStep(t, bs, bua, bu)

\* The public methods of _setupMethods, called with no argument
SetStep(t, bs, bua, bu) ==
    /\ Ready(t)
    /\ Commit(Set(Cur, t, "", bs, bua, bu), "set", t)
    /\ UNCHANGED <<doc, hasAttr, autoTimers>>

ApiSet(t) ==
    \E bs \in Hooks("beforeSet", {t}), bua \in Hooks("beforeUnsetAll", {t}),
       bu \in Hooks("beforeUnset", Active) : SetStep(t, bs, bua, bu)

UnsetStep(t, bu) ==
    /\ Ready(t)
    /\ Commit(Unset(Cur, t, bu), "unset", t)
    /\ UNCHANGED <<doc, hasAttr, autoTimers>>

ApiUnset(t) == \E bu \in Hooks("beforeUnset", Active) : UnsetStep(t, bu)

ToggleStep(t, bs, bua, bu) ==
    /\ Ready(t)
    /\ Commit(Toggle(Cur, t, "", bs, bua, bu), "toggle", t)
    /\ UNCHANGED <<doc, hasAttr, autoTimers>>

ApiToggle(t) ==
    \E bs \in Hooks("beforeSet", {t}), bua \in Hooks("beforeUnsetAll", {t}),
       bu \in Hooks("beforeUnset", Active) : ToggleStep(t, bs, bua, bu)

\* trigger.toggle.set(); trigger.toggle.unset(); in one task
SetUnsetStep(t, bs, bua, bu) ==
    /\ Ready(t)
    /\ Commit(Unset(Set(Cur, t, "", bs, bua, bu), t, bu), "setUnset", t)
    /\ UNCHANGED <<doc, hasAttr, autoTimers>>

ApiSetUnset(t) ==
    \E bs \in Hooks("beforeSet", {t}), bua \in Hooks("beforeUnsetAll", {t}),
       bu \in Hooks("beforeUnset", Active \cup {t}) : SetUnsetStep(t, bs, bua, bu)

\* The elements that are native buttons, and the elements the page gives the
\* focus to when Enter is pressed
Buttons == Get(doc, "buttons", {})
Focusable == Get(doc, "keys", {})

\* _toggleOnReturn: a keydown of Enter with the focus on e.  The listener is
\* on the document once a constructor has run; it calls toggleEventHandler
\* when the element carries a toggle bag and is neither the body nor a button.
KeyDownStep(e, bs, bua, bu) ==
    /\ \E t \in Triggers : bag[t].state # "none"
    /\ HasBag(Cur, e)
    /\ e # "body" /\ e \notin Buttons
    /\ Commit(ToggleEventHandler(Cur, e, "keydown", bs, bua, bu), "keydown", e)
    /\ UNCHANGED <<doc, hasAttr, autoTimers>>

KeyDown(e) ==
    \E bs \in Hooks("beforeSet", {e}), bua \in Hooks("beforeUnsetAll", {e}),
       bu \in Hooks("beforeUnset", Active) : KeyDownStep(e, bs, bua, bu)

Next ==
    \/ \E t \in Triggers : SetupTrigger(t)
    \/ \E ev \in doc.events : Interact(ev[1], ev[2])
    \/ \E p \in Elements : MouseLeave(p)
    \/ \E t \in Triggers : TimeoutFire(t)
    \/ \E t \in Triggers : AutoFire(t)
    \/ \E t \in Triggers : ApiSet(t)
    \/ \E t \in Triggers : ApiUnset(t)
    \/ \E t \in Triggers : ApiToggle(t)
    \/ \E t \in Triggers : ApiSetUnset(t)
    \/ \E e \in Focusable : KeyDown(e)

Spec == Init /\ [][Next]_vars

(***************************************************************************)
(* Vocabulary of the properties.                                           *)
(***************************************************************************)
ClassOf(t) == bag[t].options.activeClass
Marked(e, t) == ClassOf(t) \in cls[e]
ParentOf(t) == bag[t].parentEl
TargetOf(t) == bag[t].targetEl
IsPersist(t) == Persist(Cur, t)
SiblingOf(t) == SiblingSelector(Cur, t)

\* The options a trigger will get, before it is set up
AutoOf(t) == Get(GetOptions(doc.attr[t], doc.inst[t]), "auto", AutoUndefined)

\* The sibling group of t: the set-up triggers matching t's siblingSelector
Group(t) == {g \in Triggers : Ready(g) /\ Matches(g, SiblingOf(t))}

ActiveIn(G) == {g \in G : IsActive(g)}

\* C1: the three markers of a trigger never disagree; in particular a
\* trigger that carries the active marker has it on its parentEl and on its
\* targetEl too, also when it shares them with another trigger.
ActiveMarksAllThree ==
    \A t \in Triggers :
        (Ready(t) /\ Marked(t, t)) => (Marked(ParentOf(t), t) /\ Marked(TargetOf(t), t))

\* C2: an Inactive trigger has no dismissal handle registered: no outside
\* listener, no hover-out listener, no pending timeout, no inner-click
\* listener.
NoDanglingHandles ==
    \A t \in Triggers :
        (Ready(t) /\ ~IsActive(t)) =>
            /\ Armed(blur, t) = 0
            /\ Armed(hover, t) = 0
            /\ timers[t] = 0
            /\ TargetOf(t) \notin inner

Protected(t, g, bu) ==
    \/ ~bu[g]
    \/ Matches(g, SkipSelector(Cur, t))
    \/ ClassOf(g) # ClassOf(t)

PersistSurvivesSweep ==
    [][\A t \in Triggers, u \in Triggers :
          (/\ last'.op \in {"set", "autoTimer", "toggle"} /\ last'.el = t
           /\ u # t /\ Ready(u)
           /\ IsActive(u) /\ IsPersist(u) /\ ~Matches(u, SiblingOf(t)))
          => (u \in Active)']_vars

PersistSurvived ==
    /\ last.op = "set"
    /\ IsActive(last.el)
    /\ HookReturns(last.el, "beforeUnsetAll") = {TRUE}
    /\ \E u \in Triggers \ {last.el} :
          Ready(u) /\ IsActive(u) /\ IsPersist(u) /\ ~Matches(u, SiblingOf(last.el))

\* The hooks a run of Toggle.set from the current state calls
SetCalls(t, bs, bua, bu) ==
    LET calls == Set(Cur, t, "", bs, bua, bu).calls
    IN  {calls[i].f : i \in DOMAIN calls}

AllTrue == [t \in Triggers |-> TRUE]

\* The trigger has an outside-interaction listener for this event type
HasBlur(t, evtType) == \E i \in DOMAIN blur : blur[i].trig = t /\ blur[i].type = evtType

\* The event reaches no toggleEventHandler and no closeElCallback
Quiet(evtType, e) ==
    /\ Handlers(evtType, e) = {}
    /\ \A g \in inner : ~Contains(g, e)

\* C6 as stated: an interaction outside the targetEl and the parentEl of an
\* Active non-persist trigger, and not on it, deactivates exactly that
\* trigger.  The case taken is the one most favourable to the statement: the
\* trigger's listener is armed for the event, no beforeUnset vetoes, and the
\* event reaches no other handler.
OutsideClosesExactlyOne ==
    [][\A ev \in doc.events :
          (last'.op = ev[1] /\ last'.el = ev[2] /\ Quiet(ev[1], ev[2])) =>
              \A t \in Active :
                  (/\ ~IsPersist(t)
                   /\ HasBlur(t, ev[1])
                   /\ IsOutside(Cur, t, ev[2])
                   /\ InteractStep(ev[1], ev[2], AllTrue, AllTrue, AllTrue))
                  => Active' = Active \ {t}]_vars

\* C6 as amended: an interaction that reaches no toggleEventHandler and no
\* close control deactivates exactly the Active triggers that have an outside
\* listener armed for its event type, that it is outside of, and whose
\* beforeUnset lets it; every other trigger keeps its state.
OutsideClosesThoseOutside ==
    [][\A ev \in doc.events :
          (last'.op = ev[1] /\ last'.el = ev[2] /\ Quiet(ev[1], ev[2])) =>
              \A bu \in Hooks("beforeUnset", Active) :
                  InteractStep(ev[1], ev[2], AllTrue, AllTrue, bu) =>
                      Active' = Active \ {u \in Active : /\ HasBlur(u, ev[1])
                                                         /\ IsOutside(Cur, u, ev[2])
                                                         /\ bu[u]}]_vars

OutsideClosed ==
    /\ last.op = "click"
    /\ last.el \notin Triggers
    /\ \A g \in inner : ~Contains(g, last.el)
    /\ last.off # {}
    /\ \A t \in last.off : ~IsPersist(t) /\ ~Contains(ParentOf(t), last.el)

\* The elements Toggle.set marks for the trigger
Own(t) == {t, ParentOf(t), TargetOf(t)}

\* The triggers the unsetAll pass of a set on t deactivates
Swept(t, bua, bu) ==
    IF bua[t]
    THEN {u \in Active : /\ ClassOf(t) \in cls[u]
                         /\ ~Matches(u, SkipSelector(Cur, t))
                         /\ (~IsPersist(u) \/ Matches(u, SiblingOf(t)))
                         /\ bu[u]}
    ELSE {}

\* C7: set on an Inactive trigger followed at once by unset on it, neither
\* vetoed, leaves the active marker on every element of the page as it was
\* before the set.  The case taken is the one in which the unsetAll pass of
\* the set deactivates no other trigger.
RoundTripRestoresMarkers ==
    [][\A t \in Triggers :
          (last'.op = "setUnset" /\ last'.el = t /\ Ready(t) /\ t \notin Active) =>
              \A bs \in Hooks("beforeSet", {t}), bua \in Hooks("beforeUnsetAll", {t}),
                 bu \in Hooks("beforeUnset", Active \cup {t}) :
                  (/\ SetUnsetStep(t, bs, bua, bu)
                   /\ bs[t] /\ bu[t]
                   /\ Swept(t, bua, bu) = {})
                  => cls' = cls]_vars

\* The value of auto is a number above zero
NumericAuto(t) == AutoOf(t).k = "number" /\ AutoOf(t).n > 0

\* The value of auto is a string that is no number, and a URL parameter
UrlAuto(t) ==
    /\ AutoOf(t).k = "string"
    /\ AutoOf(t).s \notin DOMAIN NumericStrings
    /\ AutoOf(t).s \in doc.url

\* The functions a run of _setupTrigger from the current state calls
SetupCalls(t, bs, bua, bu) ==
    LET calls == SetupTriggerOp(Cur, t, bs, bua, bu).s.calls
    IN  {calls[i].f : i \in DOMAIN calls}

\* C8: with a numeric auto n > 0 the trigger is Inactive when the setup
\* returns and one timer of delay n is scheduled; when the timer fires, and
\* beforeSet does not veto, the timer is gone and the trigger is Active.
NumericAutoArmsTimer ==
    [][\A t \in Triggers :
          /\ (last'.op = "setup" /\ last'.el = t /\ NumericAuto(t)) =>
                \A bs \in Hooks("beforeSet", {t}), bua \in Hooks("beforeUnsetAll", {t}),
                   bu \in Hooks("beforeUnset", Active) :
                    SetupStep(t, bs, bua, bu) =>
                        /\ t \notin Active'
                        /\ autoTimers'[t] = <<AutoOf(t).n>>
                        /\ timers' = timers
                        /\ "set" \notin SetupCalls(t, bs, bua, bu)
          /\ (last'.op = "autoTimer" /\ last'.el = t /\ NumericAuto(t)) =>
                \A bs \in Hooks("beforeSet", {t}), bua \in Hooks("beforeUnsetAll", {t}),
                   bu \in Hooks("beforeUnset", Active) :
                    (AutoStep(t, bs, bua, bu) /\ bs[t]) =>
                        /\ t \in Active'
                        /\ autoTimers'[t] = <<>>]_vars

NumericAutoFired ==
    /\ last.op = "autoTimer"
    /\ NumericAuto(last.el)
    /\ last.el \in Active
    /\ autoTimers[last.el] = <<>>

\* C9: with auto equal to boolean true, set is called during the setup: no
\* timer is scheduled and, beforeSet allowing, the trigger is Active when
\* the setup returns.
BooleanAutoSetsNow ==
    [][\A t \in Triggers :
          (last'.op = "setup" /\ last'.el = t /\ AutoOf(t) = AutoBool(TRUE)) =>
              \A bs \in Hooks("beforeSet", {t}), bua \in Hooks("beforeUnsetAll", {t}),
                 bu \in Hooks("beforeUnset", Active) :
                  (SetupStep(t, bs, bua, bu) /\ bs[t]) =>
                      /\ t \in Active'
                      /\ autoTimers'[t] = <<>>]_vars

\* C10 as stated: with a string auto that is a URL parameter, set is called
\* during the setup, no timer is scheduled and the trigger is Active when
\* the setup returns, with or without a breakpoints table.
UrlAutoSetsNow ==
    [][\A t \in Triggers :
          (last'.op = "setup" /\ last'.el = t /\ UrlAuto(t)) =>
              \A bs \in Hooks("beforeSet", {t}), bua \in Hooks("beforeUnsetAll", {t}),
                 bu \in Hooks("beforeUnset", Active) :
                  SetupStep(t, bs, bua, bu) =>
                      /\ "set" \in SetupCalls(t, bs, bua, bu)
                      /\ autoTimers'[t] = <<>>
                      /\ t \in Active']_vars

\* C10 as amended: set is called during the setup and no timer is scheduled;
\* the trigger is Active when the setup returns provided beforeSet returns
\* true.
UrlAutoSetsNowUnlessVetoed ==
    [][\A t \in Triggers :
          (last'.op = "setup" /\ last'.el = t /\ UrlAuto(t)) =>
              \A bs \in Hooks("beforeSet", {t}), bua \in Hooks("beforeUnsetAll", {t}),
                 bu \in Hooks("beforeUnset", Active) :
                  SetupStep(t, bs, bua, bu) =>
                      /\ "set" \in SetupCalls(t, bs, bua, bu)
                      /\ autoTimers'[t] = <<>>
                      /\ bs[t] => t \in Active']_vars

UrlAutoActivated ==
    /\ last.op = "setup"
    /\ autoTimers = [t \in Triggers |-> <<>>]
    /\ \E t \in Active, u \in Active :
          /\ UrlAuto(t) /\ "breakpoints" \notin DOMAIN doc.inst[t]
          /\ UrlAuto(u) /\ "breakpoints" \in DOMAIN doc.inst[u]

\* The value of auto is a string that is no number and no URL parameter
NameAuto(t) ==
    /\ AutoOf(t).k = "string"
    /\ AutoOf(t).s \notin DOMAIN NumericStrings
    /\ AutoOf(t).s # ""
    /\ AutoOf(t).s \notin doc.url

HasTable(t) == "breakpoints" \in DOMAIN doc.inst[t]

\* The table has an entry under the name and the width is within the bounds
\* the entry carries
WithinBounds(t) ==
    /\ AutoOf(t).s \in DOMAIN doc.inst[t].breakpoints
    /\ LET b == doc.inst[t].breakpoints[AutoOf(t).s]
       IN  /\ ("min" \notin DOMAIN b) \/ doc.width >= b.min
           /\ ("max" \notin DOMAIN b) \/ doc.width <= b.max

\* C11: with a string auto that is no URL parameter and a breakpoints table,
\* the trigger is Active after the setup (beforeSet allowing) if and only if
\* the table has the entry and the width is within its bounds, an absent
\* bound being no bound; with no table neither set nor unset is called.
BreakpointAutoByBounds ==
    [][\A t \in Triggers :
          (last'.op = "setup" /\ last'.el = t /\ NameAuto(t)) =>
              \A bs \in Hooks("beforeSet", {t}), bua \in Hooks("beforeUnsetAll", {t}),
                 bu \in Hooks("beforeUnset", Active) :
                  (SetupStep(t, bs, bua, bu) /\ bs[t]) =>
                      IF HasTable(t)
                      THEN (t \in Active') <=> WithinBounds(t)
                      ELSE SetupCalls(t, bs, bua, bu) \cap {"set", "unset"} = {}]_vars

\* Which of set and unset a run of Toggle.toggle from the current state
\* calls on the trigger itself
ToggleCalls(t, evtType, bs, bua, bu) ==
    LET calls == Toggle(Cur, t, evtType, bs, bua, bu).calls
    IN  {calls[i].f : i \in {j \in DOMAIN calls : calls[j].t = t}} \cap {"set", "unset"}

\* What toggle(t, event) does, by the state of t before it
ToggleOutcome(t, evtType, bs, bua, bu) ==
    IF t \notin Active
    THEN ToggleCalls(t, evtType, bs, bua, bu) = {"set"}
    ELSE IF UnsetSelf(Cur, t) /\ evtType # "mouseenter"
         THEN /\ ToggleCalls(t, evtType, bs, bua, bu) = {"unset"}
              /\ bu[t] => t \notin Active'
         ELSE /\ ToggleCalls(t, evtType, bs, bua, bu) = {}
              /\ t \in Active'

\* C12: toggle on an Inactive trigger calls set; on an Active trigger it
\* calls unset if and only if unsetSelf is true and the event is no
\* mouseenter, and does nothing otherwise: a mouseenter never closes an Active
\* trigger, and with unsetSelf false no toggle closes it.
ToggleByState ==
    [][\A t \in Triggers :
          /\ (last'.op = "toggle" /\ last'.el = t) =>
                \A bs \in Hooks("beforeSet", {t}), bua \in Hooks("beforeUnsetAll", {t}),
                   bu \in Hooks("beforeUnset", Active) :
                    ToggleStep(t, bs, bua, bu) => ToggleOutcome(t, "", bs, bua, bu)
          /\ \A ev \in doc.events :
                (/\ ev[2] = t /\ last'.op = ev[1] /\ last'.el = t
                 /\ Ready(t) /\ ev[1] \in EventTypes(Cur, t)) =>
                    \A bs \in Hooks("beforeSet", {t}), bua \in Hooks("beforeUnsetAll", {t}),
                       bu \in Hooks("beforeUnset", Active) :
                        InteractStep(ev[1], t, bs, bua, bu) =>
                            ToggleOutcome(t, ev[1], bs, bua, bu)]_vars

HoverEnterKeptOpen ==
    /\ last.op = "mouseenter"
    /\ last.el \in Active
    /\ last.el \notin last.on
    /\ UnsetSelf(Cur, last.el)

\* The program state without the bags of the triggers whose setup aborted
Forget(s) ==
    [s EXCEPT !.bag = [t \in DOMAIN @ |-> IF @[t].state = "aborted" THEN NoBag ELSE @[t]]]

\* What a run leaves behind, but for the bags
Effect(s) == <<s.cls, s.blur, s.hover, s.timers, s.inner, s.back, s.err \/ s.threw>>

\* The setup of t finds no target element
NoTarget(t) == GetBag(t).targetEl = None

\* C13: the setup of a trigger that has no target element wires nothing,
\* evaluates no auto-activation and keeps the attribute; and the other
\* triggers operate as if that trigger were not there: a set, a toggle or an
\* event has the effect it has without the aborted trigger's bag.
AbortedTriggerIsInert ==
    [][\A t \in Triggers :
          /\ (last'.op = "setup" /\ last'.el = t /\ NoTarget(t)) =>
                \A bs \in Hooks("beforeSet", {t}), bua \in Hooks("beforeUnsetAll", {t}),
                   bu \in Hooks("beforeUnset", Active) :
                    SetupStep(t, bs, bua, bu) =>
                        /\ ~Ready(t)'
                        /\ t \in hasAttr'
                        /\ SetupCalls(t, bs, bua, bu) = {}
                        /\ UNCHANGED <<cls, blur, hover, timers, autoTimers, inner,
                                       toggleTrigger>>
          /\ (last'.op = "set" /\ last'.el = t) =>
                \A bs \in Hooks("beforeSet", {t}), bua \in Hooks("beforeUnsetAll", {t}),
                   bu \in Hooks("beforeUnset", Active) :
                    SetStep(t, bs, bua, bu) =>
                        Effect(Set(Cur, t, "", bs, bua, bu))
                            = Effect(Set(Forget(Cur), t, "", bs, bua, bu))
          /\ (last'.op = "toggle" /\ last'.el = t) =>
                \A bs \in Hooks("beforeSet", {t}), bua \in Hooks("beforeUnsetAll", {t}),
                   bu \in Hooks("beforeUnset", Active) :
                    ToggleStep(t, bs, bua, bu) =>
                        Effect(Toggle(Cur, t, "", bs, bua, bu))
                            = Effect(Toggle(Forget(Cur), t, "", bs, bua, bu))
          /\ \A ev \in doc.events :
                (ev[2] = t /\ last'.op = ev[1] /\ last'.el = t) =>
                    \A bs \in Hooks("beforeSet", {t}), bua \in Hooks("beforeUnsetAll", {t}),
                       bu \in Hooks("beforeUnset", Active) :
                        InteractStep(ev[1], t, bs, bua, bu) =>
                            Effect(DispatchEvent(Cur, ev[1], t, bs, bua, bu))
                                = Effect(DispatchEvent(Forget(Cur), ev[1], t, bs, bua, bu))]_vars

\* The hooks a run of Toggle.unset from the current state calls, in order
UnsetHooks(t, bu) ==
    LET calls == Unset(Cur, t, bu).calls
    IN  SelectSeq([i \in DOMAIN calls |-> calls[i].f],
                  LAMBDA f : f \in {"beforeSet", "afterSet", "beforeUnsetAll",
                                    "beforeUnset", "afterUnset"})

\* C14: unset changes nothing unless the trigger is Active and beforeUnset
\* returns true, and does not ask beforeUnset of an Inactive trigger; when
\* both hold it removes the marker from the trigger, its parentEl and its
\* targetEl and the inner-click listener from the targetEl, and calls
\* afterUnset once.
UnsetByState ==
    [][\A t \in Triggers :
          (last'.op = "unset" /\ last'.el = t) =>
              \A bu \in Hooks("beforeUnset", Active) :
                  UnsetStep(t, bu) =>
                      /\ UNCHANGED <<blur, hover, timers, autoTimers, bag, toggleTrigger,
                                     hasAttr>>
                      /\ IF t \notin Active
                         THEN UnsetHooks(t, bu) = <<>> /\ UNCHANGED <<cls, inner>>
                         ELSE IF ~bu[t]
                         THEN UnsetHooks(t, bu) = <<"beforeUnset">> /\ UNCHANGED <<cls, inner>>
                         ELSE /\ UnsetHooks(t, bu) = <<"beforeUnset", "afterUnset">>
                              /\ cls' = [e \in Elements |->
                                            IF e \in Own(t) THEN cls[e] \ {ClassOf(t)}
                                            ELSE cls[e]]
                              /\ inner' = inner \ {TargetOf(t)}]_vars

UnsetDone ==
    /\ last.op = "unset"
    /\ last.off = {last.el}
    /\ \A e \in Own(last.el) : ~Marked(e, last.el)
    /\ TargetOf(last.el) \notin inner

\* C15: for each trigger at most one outside-interaction listener, at most
\* one hover-out listener and at most one pending timeout timer is
\* registered, however often the trigger was activated and deactivated.
AtMostOneHandle ==
    \A t \in Triggers :
        /\ Armed(blur, t) <= 1
        /\ Armed(hover, t) <= 1
        /\ timers[t] <= 1

(***************************************************************************)
(* The unsetAll pass of a set step.                                       *)
(***************************************************************************)
\* The triggers Toggle.unset is called on during a set of t, in order
UnsetAttempts(t, bs, bua, bu) ==
    LET calls == Set(Cur, t, "", bs, bua, bu).calls
        seq == SelectSeq(calls, LAMBDA c : c.f = "unset")
    IN  [i \in DOMAIN seq |-> seq[i].t]

\* The loop test for element e in a pass run for t
PassTest(t, e) ==
    /\ e \in Triggers /\ bag[e].state # "none"
    /\ ~Matches(e, SkipSelector(Cur, t))
    /\ (~IsPersist(e) \/ Matches(e, SiblingOf(t)))

\* The elements carrying the class of t, in document order
Snapshot(t) == SelectSeq(doc.elems, LAMBDA e : ClassOf(t) \in cls[e])

\* The prefix of q that ends with the first element whose unset throws
RECURSIVE UpToThrow(_)
UpToThrow(q) ==
    IF q = <<>> THEN q
    ELSE IF bag[Head(q)].state # "ready" /\ ClassOf(Head(q)) \in cls[Head(q)]
         THEN <<Head(q)>>
         ELSE <<Head(q)>> \o UpToThrow(Tail(q))

Range(q) == {q[i] : i \in DOMAIN q}

CloseControl(t, e) == Closest(e, CloseSelector(Cur, t))

\* The value of the control's data-toggle-close attribute, "" if it has none
Discriminator(x) == doc.disc[x]

\* C17: the back-reference on the targetEl of a set-up trigger designates
\* that trigger, and a click on a close control inside the targetEl of an
\* Active trigger deactivates that trigger when the control has no
\* discriminator or one the trigger matches, and deactivates nothing when
\* the trigger does not match the discriminator (all hooks allowing).
CloseControlClosesOwner ==
    [][\A t \in Triggers, ev \in doc.events :
          (/\ last'.op = "click" /\ last'.el = ev[2] /\ ev[1] = "click"
           /\ t \in Active
           /\ Contains(TargetOf(t), ev[2])
           /\ CloseControl(t, ev[2]) # None
           /\ InteractStep("click", ev[2], AllTrue, AllTrue, AllTrue))
          => /\ toggleTrigger[TargetOf(t)] = t
             /\ IF Discriminator(CloseControl(t, ev[2])) = ""
                   \/ Matches(t, Discriminator(CloseControl(t, ev[2])))
                THEN t \notin Active'
                ELSE last'.off = {}]_vars

\* C18: an Active trigger with persist false has an outside-interaction
\* listener armed for it, and its targetEl has the inner-click listener.
ActiveCanBeDismissed ==
    \A t \in Active :
        ~IsPersist(t) => Armed(blur, t) >= 1 /\ TargetOf(t) \in inner

\* C19: a timer armed by an activation that has ended never ends a later
\* activation: when a timer of t fires while timers armed before t was last
\* Inactive are pending, the firing timer is one of those, and t stays Active.
StaleTimerIsHarmless ==
    [][\A t \in Triggers :
          (last'.op = "timeout" /\ last'.el = t /\ stale[t] > 0 /\ t \in Active)
          => t \in Active']_vars

\* C20: the key-down listener dispatches the interaction handler only on
\* elements whose ToggleState is complete, and the dispatch ends without an
\* error.
KeyDownOnReadyTrigger ==
    last.op = "keydown" => Ready(last.el) /\ ~last.err

====
